---- MODULE Spec2Model ----
(***************************************************************************)
(* scpiclient (src/src/main.rs): a line-oriented SCPI client.              *)
(*                                                                         *)
(* The model covers the query classifier is_query, the exchange write_cmd  *)
(* with its line reader read_until_terminator, the heartbeat task          *)
(* (start_heartbeat / try_peek) and the two session loops of run (batch    *)
(* and interactive), together with the TCP peer they talk to.  A third     *)
(* mode, "unit", is a direct call of write_cmd on a scripted stream, as    *)
(* the tests module of the source does.                                    *)
(*                                                                         *)
(* Strings are sequences of one-character strings.                         *)
(***************************************************************************)
EXTENDS Naturals, Sequences, FiniteSets

\* ------------------------------------------------------------------ bounds
MaxCmdLen == 3      \* longest command string given to a direct call
MaxMockLen == 3     \* longest scripted reply of a direct call
MaxPeerBytes == 2   \* bytes the peer sends during one session
MaxCmds == 2        \* commands of one session (batch lines, interactive lines)
MaxPeeks == 3       \* heartbeat peeks counted after the peer closed

\* ------------------------------------------------------------- alphabets
CmdChars == {"A", "?", " ", "\t", "\n"}
RxChars == {"1", " ", "\n"}
\* the bytes the peer of a session sends: a data byte and the terminator
PeerChars == {"1", "\n"}
\* char::is_whitespace, restricted to the characters of the alphabets
Whitespace == {" ", "\t", "\n", "\r"}

Strings(S, n) == UNION {[1..k -> S] : k \in 0..n}

CmdStrings == Strings(CmdChars, MaxCmdLen)
MockReads == Strings(RxChars, MaxMockLen)
\* Lines a session is given: rustyline's readline and str::lines yield no
\* line terminator.
SessionCmds == {<<"A", "?">>, <<"A", " ", "?">>}

\* ----------------------------------------------------- string functions
ends_with(s, ch) == Len(s) > 0 /\ s[Len(s)] = ch

RECURSIVE trim_start(_)
trim_start(s) ==
    IF s = <<>> THEN <<>>
    ELSE IF Head(s) \in Whitespace THEN trim_start(Tail(s)) ELSE s

RECURSIVE trim_end(_)
trim_end(s) ==
    IF s = <<>> THEN <<>>
    ELSE IF s[Len(s)] \in Whitespace THEN trim_end(SubSeq(s, 1, Len(s) - 1)) ELSE s

\* str::trim
trim(s) == trim_end(trim_start(s))

\* command.split(" ").collect::<Vec<_>>().first().unwrap()
RECURSIVE split_first(_, _)
split_first(s, sep) ==
    IF s = <<>> THEN <<>>
    ELSE IF Head(s) = sep THEN <<>>
    ELSE <<Head(s)>> \o split_first(Tail(s), sep)

\* A plausible slip: split on any whitespace (split_whitespace) instead of " ".
is_query_split_whitespace(command) ==
    LET RECURSIVE tok(_)
        tok(s) == IF s = <<>> THEN <<>>
                  ELSE IF Head(s) \in Whitespace THEN <<>>
                  ELSE <<Head(s)>> \o tok(Tail(s))
    IN  IF command = <<>> THEN FALSE ELSE ends_with(tok(trim_start(command)), "?")

is_query(command) ==
    IF command = <<>> THEN FALSE
    ELSE ends_with(trim(split_first(command, " ")), "?")

\* A plausible slip: push the terminator unconditionally.
cmd_copy_always_push(command) == Append(command, "\n")

\* cmd_copy after the conditional push('\n')
cmd_copy(command) ==
    IF ~ends_with(command, "\n") THEN Append(command, "\n") ELSE command

\* Position of the first "\n" of s, 0 when there is none.
RECURSIVE newline_pos(_)
newline_pos(s) ==
    IF s = <<>> THEN 0
    ELSE IF Head(s) = "\n" THEN 1
    ELSE LET p == newline_pos(Tail(s)) IN IF p = 0 THEN 0 ELSE p + 1

\* ------------------------------------------------------- result values
None == [tag |-> "None", val |-> <<>>]
Some(v) == [tag |-> "Some", val |-> v]
Err == [tag |-> "Err", val |-> <<>>]
Pending == [tag |-> "Pending", val |-> <<>>]


\* ----------------------------------------------------------------- state
VARIABLES
    mode,        \* "unit" | "batch" | "interactive"
    cmdLines,    \* batch: the lines of cmd.lines(), all of them
    lines,       \* batch: the lines of cmd.lines() not yet taken
    pc,          \* where the main task is
    cmd,         \* the command of the current exchange
    isq,         \* is_query_cmd
    sent,        \* the bytes handed to write_all
    wrote,       \* "none" | "ok" | "err": how write_all ended
    didRead,     \* read_until_terminator was called in this exchange
    rdres,       \* "none" | "line" | "eof" | "err" | "timeout": how the read ended
    acc,         \* read_line's buffer: the part of a line read so far
    result,      \* what write_cmd returned
    diag,        \* eprintln!("{}", err) ran in this exchange
    readFrom,    \* how many bytes socket reads had taken when this exchange started
    rxAtWrite,   \* write_cmd is running and the socket held unread bytes when it wrote its query
    stdout,      \* the lines printed by println!("{}", resp)
    ncmd,        \* exchanges started
    wire,        \* the writes the transport accepted, in order
    mpc,         \* where the heartbeat task is
    rbFilled,    \* filled bytes of the heartbeat's 1-byte ReadBuf
    readers,     \* read guards of the RwLock that are held
    writer,      \* the write guard of the RwLock is held
    lockq,       \* tasks queued on the RwLock, first come first
    conn,        \* "open" | "fin" | "rst" | "finrst": what the peer did to the connection
    sockErr,     \* a socket error is pending (reported once)
    rx,          \* bytes received and not yet read from the socket
    peerSent,    \* every byte the peer sent, in order
    consumed,    \* every byte socket reads took, in order
    lost,        \* bytes taken from the socket and never returned to a caller
    staleReady,  \* the runtime holds the socket for readable though a read has emptied it
    exitStatus,  \* "running" | "0" | "1"
    exitBy,      \* "none" | "input" | "batch" | "error" | "monitor"
    closedAtInput,   \* the peer closed while the loop was waiting in readline
    peeksSinceClose, \* heartbeat peeks since the peer closed
    writesSinceClose \* commands written since then

exchVars == <<cmd, isq, sent, wrote, didRead, rdres, acc, result, diag, readFrom, rxAtWrite>>
lockVars == <<readers, writer, lockq>>
sockVars == <<conn, sockErr, rx, peerSent, consumed, lost, staleReady>>
histVars == <<closedAtInput, peeksSinceClose, writesSinceClose>>
vars == <<mode, cmdLines, lines, pc, exchVars, stdout, ncmd, wire, mpc, rbFilled,
          lockVars, sockVars, exitStatus, exitBy, histVars>>

Running == exitStatus = "running"

\* The values the per-exchange variables take when an exchange starts.
StartExchange(c) ==
    /\ cmd' = c
    /\ isq' = FALSE
    /\ sent' = <<>>
    /\ wrote' = "none"
    /\ didRead' = FALSE
    /\ rdres' = "none"
    /\ acc' = <<>>
    /\ result' = Pending
    /\ diag' = FALSE
    /\ readFrom' = Len(consumed)
    /\ rxAtWrite' = FALSE

InitCommon ==
    /\ isq = FALSE /\ sent = <<>> /\ wrote = "none" /\ didRead = FALSE
    /\ rdres = "none" /\ acc = <<>> /\ result = Pending /\ diag = FALSE /\ readFrom = 0 /\ rxAtWrite = FALSE
    /\ stdout = <<>> /\ wire = <<>> /\ rbFilled = 0
    /\ readers = 0 /\ writer = FALSE /\ lockq = <<>>
    /\ consumed = <<>> /\ lost = <<>> /\ staleReady = FALSE
    /\ exitStatus = "running" /\ exitBy = "none"
    /\ closedAtInput = FALSE /\ peeksSinceClose = 0 /\ writesSinceClose = 0

\* tests: write_cmd(&mut mock_stream, command, 5) on a scripted stream
InitUnit ==
    /\ mode = "unit" /\ lines = <<>> /\ cmdLines = <<>> /\ pc = "write" /\ mpc = "off"
    /\ cmd \in CmdStrings /\ ncmd = 1
    /\ rx \in MockReads /\ peerSent = rx
    /\ conn \in {"open", "fin", "rst"} /\ sockErr = (conn = "rst")
    /\ InitCommon

\* run with command = Some(cmd): the lines of cmd.lines()
InitBatch ==
    /\ mode = "batch" /\ pc = "next" /\ mpc = "off"
    /\ lines \in UNION {[1..k -> SessionCmds] : k \in 0..MaxCmds}
    /\ cmdLines = lines
    /\ cmd = <<>> /\ ncmd = 0
    /\ rx = <<>> /\ peerSent = <<>> /\ conn = "open" /\ sockErr = FALSE
    /\ InitCommon

\* run with command = None, after start_heartbeat
InitInteractive ==
    /\ mode = "interactive" /\ lines = <<>> /\ cmdLines = <<>> /\ pc = "readline" /\ mpc = "lock"
    /\ cmd = <<>> /\ ncmd = 0
    /\ rx = <<>> /\ peerSent = <<>> /\ conn = "open" /\ sockErr = FALSE
    /\ InitCommon

Init == InitUnit \/ InitBatch \/ InitInteractive


\* ----------------------------------------------------------- the RwLock
\* tokio's RwLock is fair: a request is granted at once only when nothing is
\* queued before it, and a release hands the lock to the first queued task.
read_lock_free_ignoring_writer == TRUE

\* connection.read().await is granted at once
read_lock_free == ~writer /\ lockq = <<>>

\* wrapped.write().await is granted at once
write_lock_free == ~writer /\ readers = 0 /\ lockq = <<>>

\* The main task drops its write guard; a queued heartbeat gets its read guard.
ReleaseWrite ==
    /\ writer' = FALSE
    /\ IF lockq # <<>> /\ Head(lockq) = "mon"
       THEN readers' = readers + 1 /\ lockq' = Tail(lockq) /\ mpc' = "peek"
       ELSE UNCHANGED <<readers, lockq, mpc>>

\* -------------------------------------------------------------- the socket
\* run leaves the socket in blocking mode (set_nonblocking(false)) and hands
\* it to the runtime: a recv, or a recv(MSG_PEEK), that the runtime makes on
\* stale readiness finds nothing and blocks its thread until the peer acts.
recv_blocks == staleReady /\ rx = <<>> /\ conn = "open"

\* ------------------------------------------------------------ write_cmd
\* write_all fails on a connection that was reset.
WriteOk == conn \in {"open", "fin"}

\* A plausible slip: the write error is dropped (no `?`) and the exchange goes on.
after_write_swallow(ok, q) ==
    IF q THEN [pc |-> "read", result |-> Pending] ELSE [pc |-> "ret", result |-> None]

\* A plausible slip: the read is attempted for every command.
after_write_always_read(ok, q) ==
    IF ~ok THEN [pc |-> "ret", result |-> Err] ELSE [pc |-> "read", result |-> Pending]

\* What follows write_all: `?` returns the error; a query goes on to
\* read_until_terminator; any other command returns Ok(None).
after_write(ok, q) ==
    IF ~ok THEN [pc |-> "ret", result |-> Err]
    ELSE IF q THEN [pc |-> "read", result |-> Pending]
    ELSE [pc |-> "ret", result |-> None]

\* A plausible slip: the read error is returned with `?`.
match_response_propagate(ok, text) ==
    IF ok THEN [result |-> Some(trim(text)), diag |-> FALSE]
    ELSE [result |-> Err, diag |-> FALSE]

\* A plausible slip: the line is returned untrimmed.
match_response_no_trim(ok, text) ==
    IF ok THEN [result |-> Some(text), diag |-> FALSE]
    ELSE [result |-> None, diag |-> TRUE]

\* match response { Ok(text) => Ok(Some(text.trim())), Err(err) => { eprintln; Ok(None) } }
match_response(ok, text) ==
    IF ok THEN [result |-> Some(trim(text)), diag |-> FALSE]
    ELSE [result |-> None, diag |-> TRUE]

\* is_query, the terminator push and write_all, up to the branch on is_query_cmd.
write_cmd_send ==
    /\ Running /\ pc = "write"
    /\ isq' = is_query(cmd)
    /\ sent' = cmd_copy(cmd)
    /\ wrote' = IF WriteOk THEN "ok" ELSE "err"
    /\ wire' = IF WriteOk THEN Append(wire, cmd_copy(cmd)) ELSE wire
    /\ sockErr' = IF WriteOk THEN sockErr ELSE FALSE
    /\ LET a == after_write(WriteOk, is_query(cmd))
       IN  /\ pc' = a.pc
           /\ result' = a.result
           /\ didRead' = (a.pc = "read")
    \* the mock of the tests yields its scripted read only after the write
    /\ rxAtWrite' = (mode # "unit" /\ WriteOk /\ is_query(cmd) /\ rx # <<>>)
    /\ writesSinceClose' = IF closedAtInput THEN writesSinceClose + 1 ELSE writesSinceClose
    /\ UNCHANGED <<mode, cmdLines, lines, cmd, rdres, acc, diag, readFrom, stdout, ncmd, mpc, rbFilled,
                   lockVars, conn, rx, peerSent, consumed, lost, staleReady, exitStatus,
                   exitBy, closedAtInput, peeksSinceClose>>

\* ------------------------------------------------- read_until_terminator
\* The BufReader takes every byte the socket holds.  With a "\n" among them
\* read_line returns the line; what the BufReader holds after it is dropped
\* with the BufReader.  Without one the bytes join read_line's buffer.
\* The readiness the runtime holds may be stale after the read: when the
\* bytes came in more than one segment, the event of a later segment may
\* reach the runtime after this read has emptied the socket; when the recv
\* was made on stale readiness, the event of the bytes it took may.
read_line_fill ==
    /\ Running /\ pc = "read" /\ rx # <<>>
    /\ consumed' = consumed \o rx
    /\ rx' = <<>>
    /\ staleReady' \in (IF mode # "unit" /\ (Len(rx) >= 2 \/ staleReady)
                        THEN BOOLEAN ELSE {FALSE})
    /\ LET p == newline_pos(rx)
       IN  IF p > 0
           THEN LET m == match_response(TRUE, acc \o SubSeq(rx, 1, p))
                IN  /\ result' = m.result
                    /\ diag' = m.diag
                    /\ lost' = lost \o SubSeq(rx, p + 1, Len(rx))
                    /\ acc' = <<>>
                    /\ rdres' = "line"
                    /\ pc' = "ret"
           ELSE /\ acc' = acc \o rx
                /\ UNCHANGED <<result, diag, lost, rdres, pc>>
    /\ UNCHANGED <<mode, cmdLines, lines, cmd, isq, sent, wrote, didRead, readFrom, rxAtWrite, stdout, ncmd, wire, mpc,
                   rbFilled, lockVars, conn, sockErr, peerSent, exitStatus, exitBy,
                   histVars>>

\* End of stream: read_line returns Ok with what it has, possibly nothing.
read_line_eof ==
    /\ Running /\ pc = "read" /\ rx = <<>>
    /\ conn \in {"fin", "finrst"} \/ (conn = "rst" /\ ~sockErr)
    /\ LET m == match_response(TRUE, acc)
       IN  result' = m.result /\ diag' = m.diag
    /\ acc' = <<>>
    /\ rdres' = "eof"
    /\ pc' = "ret"
    /\ UNCHANGED <<mode, cmdLines, lines, cmd, isq, sent, wrote, didRead, readFrom, rxAtWrite, stdout, ncmd, wire, mpc,
                   rbFilled, lockVars, sockVars, exitStatus, exitBy, histVars>>

\* The socket reports its pending error to the read.
read_line_err ==
    /\ Running /\ pc = "read" /\ rx = <<>>
    /\ conn = "rst" /\ sockErr
    /\ LET m == match_response(FALSE, <<>>)
       IN  result' = m.result /\ diag' = m.diag
    /\ sockErr' = FALSE
    /\ lost' = lost \o acc
    /\ acc' = <<>>
    /\ rdres' = "err"
    /\ pc' = "ret"
    /\ UNCHANGED <<mode, cmdLines, lines, cmd, isq, sent, wrote, didRead, readFrom, rxAtWrite, stdout, ncmd, wire, mpc,
                   rbFilled, lockVars, conn, rx, peerSent, consumed, staleReady, exitStatus,
                   exitBy, histVars>>

\* tokio::time::timeout elapses: the read_line future is dropped with its
\* buffer.  A recv that blocks keeps the task from seeing its deadline.
read_timeout ==
    /\ Running /\ pc = "read" /\ rx = <<>> /\ conn = "open" /\ ~recv_blocks
    /\ LET m == match_response(FALSE, <<>>)
       IN  result' = m.result /\ diag' = m.diag
    /\ lost' = lost \o acc
    /\ acc' = <<>>
    /\ rdres' = "timeout"
    /\ pc' = "ret"
    /\ UNCHANGED <<mode, cmdLines, lines, cmd, isq, sent, wrote, didRead, readFrom, rxAtWrite, stdout, ncmd, wire, mpc,
                   rbFilled, lockVars, conn, sockErr, rx, peerSent, consumed, staleReady,
                   exitStatus, exitBy, histVars>>


\* ------------------------------------------------------------------ run
\* The statement around write_cmd ends: the write guard (interactive), a
\* temporary of that statement, is dropped.  What the loop does with the
\* result comes after, with the lock free: `?` returns an error to main, a
\* response goes to println!, None goes on to the next line.
run_return ==
    /\ Running /\ pc = "ret"
    /\ IF mode = "interactive" THEN ReleaseWrite ELSE UNCHANGED <<lockVars, mpc>>
    /\ pc' = CASE mode = "unit" -> "done"
               [] result.tag = "Err" -> "fail"
               [] result.tag = "Some" -> "print"
               [] mode = "interactive" -> "readline"
               [] OTHER -> "next"
    /\ rxAtWrite' = FALSE
    /\ UNCHANGED <<mode, cmdLines, lines, cmd, isq, sent, wrote, didRead, rdres, acc, result, diag,
                   readFrom, stdout, ncmd, wire, rbFilled, sockVars, exitStatus, exitBy,
                   histVars>>

\* if let Some(resp) = response { println!("{}", resp) }
run_print ==
    /\ Running /\ pc = "print"
    /\ stdout' = Append(stdout, result.val)
    /\ pc' = IF mode = "interactive" THEN "readline" ELSE "next"
    /\ UNCHANGED <<mode, cmdLines, lines, exchVars, ncmd, wire, mpc, rbFilled, lockVars,
                   sockVars, exitStatus, exitBy, histVars>>

\* run has returned the error: main reports it and ends the process with 1.
run_fail ==
    /\ Running /\ pc = "fail"
    /\ pc' = "exited"
    /\ exitStatus' = "1"
    /\ exitBy' = "error"
    /\ UNCHANGED <<mode, cmdLines, lines, exchVars, stdout, ncmd, wire, mpc, rbFilled, lockVars,
                   sockVars, histVars>>

\* for line in cmd.lines(): the next line goes to write_cmd, with no lock.
run_batch_next ==
    /\ Running /\ mode = "batch" /\ pc = "next" /\ lines # <<>>
    /\ StartExchange(Head(lines))
    /\ lines' = Tail(lines)
    /\ ncmd' = ncmd + 1
    /\ pc' = "write"
    /\ UNCHANGED <<mode, cmdLines, stdout, wire, mpc, rbFilled, lockVars, sockVars,
                   exitStatus, exitBy, histVars>>

\* The lines are exhausted: return Ok(()), and main returns Ok(()).
run_batch_done ==
    /\ Running /\ mode = "batch" /\ pc = "next" /\ lines = <<>>
    /\ pc' = "exited"
    /\ exitStatus' = "0"
    /\ exitBy' = "batch"
    /\ UNCHANGED <<mode, cmdLines, lines, exchVars, stdout, ncmd, wire, mpc, rbFilled, lockVars,
                   sockVars, histVars>>

\* rl.readline returns a line; it joins the history.
run_readline ==
    /\ Running /\ mode = "interactive" /\ pc = "readline" /\ ncmd < MaxCmds
    /\ \E c \in SessionCmds : StartExchange(c)
    /\ ncmd' = ncmd + 1
    /\ pc' = "lock"
    /\ UNCHANGED <<mode, cmdLines, lines, stdout, wire, mpc, rbFilled, lockVars, sockVars,
                   exitStatus, exitBy, histVars>>

\* The lines println! writes for the notices: "Exiting." is one line,
\* "\nConnection lost." an empty line and the notice.
ExitNotice == <<"Exiting.">>
LostNotice == << <<>>, <<"Connection lost.">> >>

\* rl.readline returns an error (interrupt, end of file): println!("Exiting.").
run_input_end ==
    /\ Running /\ mode = "interactive" /\ pc = "readline"
    /\ pc' = "exit0"
    /\ stdout' = Append(stdout, ExitNotice)
    /\ UNCHANGED <<mode, cmdLines, lines, exchVars, ncmd, wire, mpc, rbFilled, lockVars,
                   sockVars, exitStatus, exitBy, histVars>>

\* A plausible slip: the end of input is taken for an error, exit(1).
run_exit_as_error ==
    /\ Running /\ pc = "exit0"
    /\ pc' = "exited"
    /\ exitStatus' = "1"
    /\ exitBy' = "input"
    /\ UNCHANGED <<mode, cmdLines, lines, exchVars, stdout, ncmd, wire, mpc, rbFilled, lockVars,
                   sockVars, histVars>>

\* exit(0) after the notice; the heartbeat's thread runs until the process
\* has ended.
run_exit ==
    /\ Running /\ pc = "exit0"
    /\ pc' = "exited"
    /\ exitStatus' = "0"
    /\ exitBy' = "input"
    /\ UNCHANGED <<mode, cmdLines, lines, exchVars, stdout, ncmd, wire, mpc, rbFilled, lockVars,
                   sockVars, histVars>>

\* wrapped.write().await: granted at once, or queued behind the heartbeat.
run_lock ==
    /\ Running /\ mode = "interactive" /\ pc = "lock"
    /\ IF write_lock_free
       THEN writer' = TRUE /\ pc' = "write" /\ UNCHANGED <<readers, lockq>>
       ELSE lockq' = Append(lockq, "main") /\ pc' = "lockwait"
            /\ UNCHANGED <<readers, writer>>
    /\ UNCHANGED <<mode, cmdLines, lines, exchVars, stdout, ncmd, wire, mpc, rbFilled, sockVars,
                   exitStatus, exitBy, histVars>>

\* ------------------------------------------------------------ heartbeat
\* recv(MSG_PEEK) into a buffer of n bytes, as poll_peek reports it.
poll_peek(n) ==
    IF rx # <<>> THEN [kind |-> "ok", size |-> IF n < Len(rx) THEN n ELSE Len(rx)]
    ELSE IF conn \in {"fin", "finrst"} THEN [kind |-> "ok", size |-> 0]
    ELSE IF conn = "rst" /\ sockErr THEN [kind |-> "err", size |-> 0]
    ELSE IF conn = "rst" THEN [kind |-> "ok", size |-> 0]
    ELSE [kind |-> "pending", size |-> 0]

\* A plausible slip: the lie is told whether or not the poll was pending.
try_peek_always_lie(n) == [kind |-> "ok", size |-> 1, adv |-> 0]

\* try_peek on a ReadBuf with n unfilled bytes: a pending poll is reported as
\* Ok(1); a ready one as it is, and poll_peek has advanced the ReadBuf.
try_peek(n) ==
    LET status == poll_peek(n)
    IN  IF status.kind = "pending" THEN [kind |-> "ok", size |-> 1, adv |-> 0]
        ELSE [kind |-> status.kind, size |-> status.size, adv |-> status.size]

\* size.unwrap_or(1)
unwrap_or_1(r) == IF r.kind = "ok" THEN r.size ELSE 1

\* A plausible slip: a read where a peek was meant.
rx_after_peek_read(n) == SubSeq(rx, n + 1, Len(rx))

\* The socket's unread bytes after a peek of n bytes: a peek takes nothing.
rx_after_peek(n) == rx

\* connection.read().await: granted at once, or queued behind the exchange.
heartbeat_lock ==
    /\ Running /\ mpc = "lock"
    /\ IF read_lock_free
       THEN readers' = readers + 1 /\ mpc' = "peek" /\ UNCHANGED <<writer, lockq>>
       ELSE lockq' = Append(lockq, "mon") /\ mpc' = "lockwait"
            /\ UNCHANGED <<readers, writer>>
    /\ UNCHANGED <<mode, cmdLines, lines, pc, exchVars, stdout, ncmd, wire, rbFilled, sockVars,
                   exitStatus, exitBy, histVars>>

\* A plausible slip: no inner scope, so the read guard lives across the sleep.
heartbeat_peek_keep_guard ==
    /\ Running /\ mpc = "peek" /\ ~recv_blocks
    /\ LET r == try_peek(1 - rbFilled)
       IN  /\ rbFilled' = rbFilled + r.adv
           /\ rx' = rx_after_peek(r.adv)
           /\ sockErr' = IF r.kind = "err" THEN FALSE ELSE sockErr
           /\ IF unwrap_or_1(r) = 0
              THEN /\ mpc' = "lost"
                   /\ UNCHANGED <<lockVars, pc>>
              ELSE /\ mpc' = "sleep"
                   /\ UNCHANGED <<lockVars, pc>>
    /\ peeksSinceClose' = IF conn # "open" /\ peeksSinceClose < MaxPeeks
                          THEN peeksSinceClose + 1 ELSE peeksSinceClose
    /\ UNCHANGED <<mode, cmdLines, lines, exchVars, stdout, ncmd, wire, conn, peerSent,
                   consumed, lost, staleReady, exitStatus, exitBy, closedAtInput,
                   writesSinceClose>>

\* One round under the read guard: try_peek, unless its recv blocks; then
\* the exit branch on a size of 0, or else the guard is dropped (a queued
\* exchange gets its write guard) and the task goes to sleep.
heartbeat_peek ==
    /\ Running /\ mpc = "peek" /\ ~recv_blocks
    /\ LET r == try_peek(1 - rbFilled)
       IN  /\ rbFilled' = rbFilled + r.adv
           /\ rx' = rx_after_peek(r.adv)
           /\ sockErr' = IF r.kind = "err" THEN FALSE ELSE sockErr
           /\ IF unwrap_or_1(r) = 0
              THEN /\ mpc' = "lost"
                   /\ UNCHANGED <<lockVars, pc>>
              ELSE /\ mpc' = "sleep"
                   /\ readers' = readers - 1
                   /\ IF lockq # <<>> /\ Head(lockq) = "main" /\ readers = 1 /\ ~writer
                      THEN writer' = TRUE /\ lockq' = Tail(lockq) /\ pc' = "write"
                      ELSE UNCHANGED <<writer, lockq, pc>>
    /\ peeksSinceClose' = IF conn # "open" /\ peeksSinceClose < MaxPeeks
                          THEN peeksSinceClose + 1 ELSE peeksSinceClose
    /\ UNCHANGED <<mode, cmdLines, lines, exchVars, stdout, ncmd, wire, conn, peerSent,
                   consumed, lost, staleReady, exitStatus, exitBy, closedAtInput,
                   writesSinceClose>>

\* println!("\nConnection lost.") in the exit branch
heartbeat_notice ==
    /\ Running /\ mpc = "lost"
    /\ stdout' = stdout \o LostNotice
    /\ mpc' = "exit"
    /\ UNCHANGED <<mode, cmdLines, lines, pc, exchVars, ncmd, wire, rbFilled, lockVars,
                   sockVars, exitStatus, exitBy, histVars>>

\* disable_raw_mode and exit(1); the main task's thread runs until the
\* process has ended.
heartbeat_exit ==
    /\ Running /\ mpc = "exit"
    /\ mpc' = "exited"
    /\ exitStatus' = "1"
    /\ exitBy' = "monitor"
    /\ UNCHANGED <<mode, cmdLines, lines, pc, exchVars, stdout, ncmd, wire, rbFilled, lockVars,
                   sockVars, histVars>>

\* A plausible slip: no loop around the round; the task ends after one.
heartbeat_wake_once ==
    /\ Running /\ mpc = "sleep"
    /\ mpc' = "off"
    /\ UNCHANGED <<mode, cmdLines, lines, pc, exchVars, stdout, ncmd, wire, rbFilled, lockVars,
                   sockVars, exitStatus, exitBy, histVars>>

\* tokio::time::sleep(interval) is over: the loop starts its next round.
heartbeat_wake ==
    /\ Running /\ mpc = "sleep"
    /\ mpc' = "lock"
    /\ UNCHANGED <<mode, cmdLines, lines, pc, exchVars, stdout, ncmd, wire, rbFilled, lockVars,
                   sockVars, exitStatus, exitBy, histVars>>

\* ------------------------------------------------------------- the peer
\* The other end of the TcpStream of run: it sends bytes, closes, or resets.
PeerSend ==
    /\ Running /\ mode # "unit" /\ conn = "open" /\ Len(peerSent) < MaxPeerBytes
    /\ \E b \in PeerChars :
          /\ rx' = Append(rx, b)
          /\ peerSent' = Append(peerSent, b)
    /\ UNCHANGED <<mode, cmdLines, lines, pc, exchVars, stdout, ncmd, wire, mpc, rbFilled, lockVars,
                   conn, sockErr, consumed, lost, staleReady, exitStatus, exitBy, histVars>>

PeerClose ==
    /\ Running /\ mode # "unit" /\ conn = "open"
    /\ conn' = "fin"
    /\ closedAtInput' = (mode = "interactive" /\ pc = "readline")
    /\ UNCHANGED <<mode, cmdLines, lines, pc, exchVars, stdout, ncmd, wire, mpc, rbFilled, lockVars,
                   sockErr, rx, peerSent, consumed, lost, staleReady, exitStatus, exitBy,
                   peeksSinceClose, writesSinceClose>>

PeerReset ==
    /\ Running /\ mode # "unit" /\ conn \in {"open", "fin"}
    /\ conn' = IF conn = "open" THEN "rst" ELSE "finrst"
    /\ sockErr' = (conn = "open")
    /\ closedAtInput' = IF conn = "open" THEN (mode = "interactive" /\ pc = "readline")
                        ELSE closedAtInput
    /\ UNCHANGED <<mode, cmdLines, lines, pc, exchVars, stdout, ncmd, wire, mpc, rbFilled, lockVars,
                   rx, peerSent, consumed, lost, staleReady, exitStatus, exitBy,
                   peeksSinceClose, writesSinceClose>>

\* -------------------------------------------------------- specifications
Next ==
    \/ write_cmd_send
    \/ read_line_fill
    \/ read_line_eof
    \/ read_line_err
    \/ read_timeout
    \/ run_return
    \/ run_print
    \/ run_fail
    \/ run_batch_next
    \/ run_batch_done
    \/ run_readline
    \/ run_input_end
    \/ run_exit
    \/ run_lock
    \/ heartbeat_lock
    \/ heartbeat_peek
    \/ heartbeat_notice
    \/ heartbeat_exit
    \/ heartbeat_wake
    \/ PeerSend
    \/ PeerClose
    \/ PeerReset

Spec == Init /\ [][Next]_vars

\* The steps of the main task that wait for nothing but the lock, the socket
\* or the deadline.
ExchangeStep ==
    \/ run_lock
    \/ write_cmd_send
    \/ read_line_fill
    \/ read_line_eof
    \/ read_line_err
    \/ read_timeout
    \/ run_return
    \/ run_print
    \/ run_fail

\* The steps of the batch loop of run: one exchange after the other, with no
\* lock to wait for.
BatchStep ==
    \/ run_batch_next
    \/ write_cmd_send
    \/ read_line_fill
    \/ read_line_eof
    \/ read_line_err
    \/ read_timeout
    \/ run_return
    \/ run_print
    \/ run_fail
    \/ run_batch_done

\* A batch run: no heartbeat, no prompt.
NextBatch ==
    \/ BatchStep
    \/ PeerSend
    \/ PeerClose
    \/ PeerReset

\* The runtime schedules the main task, and a call that has started ends,
\* except a recv that blocks (read_timeout is disabled then); the peer acts
\* when it likes, or never.
FairBatchSpec ==
    /\ InitBatch
    /\ [][NextBatch]_vars
    /\ WF_vars(BatchStep)

\* An interactive session: no batch steps.
NextInteractive ==
    \/ ExchangeStep
    \/ run_readline
    \/ run_input_end
    \/ run_exit
    \/ heartbeat_lock
    \/ heartbeat_peek
    \/ heartbeat_notice
    \/ heartbeat_exit
    \/ heartbeat_wake
    \/ PeerSend
    \/ PeerClose
    \/ PeerReset

\* The runtime schedules the heartbeat task and the main task, and a call
\* that has started ends, except a recv that blocks (heartbeat_peek and
\* read_timeout are disabled then); the user and the peer act when they
\* like, or never.
FairSpec ==
    /\ InitInteractive
    /\ [][NextInteractive]_vars
    /\ WF_vars(heartbeat_lock)
    /\ WF_vars(heartbeat_peek)
    /\ WF_vars(heartbeat_notice)
    /\ WF_vars(heartbeat_exit)
    /\ WF_vars(heartbeat_wake)
    /\ WF_vars(ExchangeStep)
    /\ WF_vars(run_exit)


\* ---------------------------------------------------------------- claims
InExchange == pc \in {"write", "read", "ret"}

\* C1: a write failure is returned from the exchange as an error, never as
\* "no response": no read is attempted after it, and the session that made
\* the call ends with status 1 without starting another command.
C1_WriteFailureIsFatal ==
    wrote = "err" =>
        /\ result = Err
        /\ ~didRead /\ rdres = "none" /\ consumed = SubSeq(peerSent, 1, readFrom)
        /\ pc \in {"ret", "fail", "exited", "done"}
        /\ (~Running => exitStatus = "1")
        /\ (pc = "exited" => exitBy = "error")

C1_Witness ==
    /\ mode = "interactive" /\ wrote = "err" /\ pc = "exited"
    /\ exitBy = "error" /\ ncmd < MaxCmds

\* C2: for a query whose write succeeded, a read that times out or fails
\* makes the exchange return Ok(None) after a diagnostic, never an error,
\* and the session goes on to its next command.
C2_ReadFailureIsAbsorbed ==
    rdres \in {"timeout", "err"} =>
        /\ wrote = "ok" /\ isq
        /\ result = None /\ diag
        /\ pc \in {"ret", "readline", "next", "done", "exit0", "exited"}
        /\ exitBy # "error"

C2_Witness ==
    /\ rdres = "timeout" /\ mode = "interactive" /\ pc = "readline"
    /\ exitStatus = "running" /\ ncmd < MaxCmds

\* C3: the heartbeat's peek never overlaps the exchange's write or read: the
\* heartbeat holds its read guard only while the exchange holds no write
\* guard, and the other way round.
C3_MutualExclusion ==
    /\ ~(mpc = "peek" /\ InExchange)
    /\ (writer => readers = 0)
    /\ (mode = "interactive" /\ InExchange => writer)
    /\ (mpc = "peek" => readers = 1)

C3_Witness == pc = "read" /\ mpc = "lockwait" /\ writer

\* C4: the heartbeat's peek takes no byte from the inbound stream and moves
\* none: what socket reads have taken, followed by what is still unread, is
\* what the peer sent.
C4_PeekTakesNothing == consumed \o rx = peerSent

C4_Witness ==
    /\ mode = "interactive" /\ rbFilled = 1 /\ rdres = "line"
    /\ consumed # <<>> /\ consumed = peerSent

\* C7: a command that is not a query, once written, is answered None with no
\* read: no byte is taken from the inbound stream and no deadline is waited.
C7_NonQueryNeverReads ==
    (wrote = "ok" /\ ~is_query(cmd)) =>
        /\ result = None
        /\ ~didRead /\ rdres = "none" /\ pc # "read"
        /\ consumed = SubSeq(peerSent, 1, readFrom)

C7_Witness ==
    /\ wrote = "ok" /\ cmd = <<"A", " ", "?">> /\ pc = "readline"
    /\ rx # <<>> /\ result = None


\* C8 as stated: the write hands the transport the command, with one "\n"
\* added when it does not end with one, and for every command c the exchanges
\* of c and of c followed by "\n" write the same bytes.
C8_SameBytesForEveryCommand ==
    wrote # "none" =>
        /\ sent = (IF Len(cmd) > 0 /\ cmd[Len(cmd)] = "\n" THEN cmd ELSE cmd \o <<"\n">>)
        /\ sent = cmd_copy(cmd \o <<"\n">>)

\* C8, amended: every exchange makes its one write before any read and hands
\* the transport the command, with one "\n" added when it does not end with
\* one and unchanged when it does; for every command c that does not end
\* with "\n", the exchanges of c and of c followed by "\n" write the same
\* bytes.
C8_TerminatorNormalized ==
    /\ (pc = "write" => wrote = "none" /\ ~didRead /\ rdres = "none")
    /\ (didRead => wrote # "none")
    /\ Len(wire) <= ncmd
    /\ (wrote = "ok" => Len(wire) > 0 /\ wire[Len(wire)] = sent)
    /\ wrote # "none" =>
          /\ sent = (IF Len(cmd) > 0 /\ cmd[Len(cmd)] = "\n" THEN cmd ELSE cmd \o <<"\n">>)
          /\ (~(Len(cmd) > 0 /\ cmd[Len(cmd)] = "\n") => sent = cmd_copy(cmd \o <<"\n">>))

C8_Witness ==
    /\ wrote = "ok" /\ cmd = <<"A", "?", "\n">> /\ sent = cmd /\ rdres = "line"

\* The first line of the inbound stream that the reads of this exchange
\* start from: the bytes after the first readFrom up to the first "\n".
FirstLine ==
    LET rest == SubSeq(peerSent, readFrom + 1, Len(peerSent))
    IN  SubSeq(rest, 1, newline_pos(rest))

\* r is s without the whitespace around it.
IsStripped(r, s) ==
    /\ r = <<>> \/ (r[1] \notin Whitespace /\ r[Len(r)] \notin Whitespace)
    /\ \E i \in 1..(Len(s) + 1) :
          /\ \A k \in 1..(i - 1) : s[k] \in Whitespace
          /\ i + Len(r) - 1 <= Len(s)
          /\ \A k \in 1..Len(r) : r[k] = s[i + k - 1]
          /\ \A k \in (i + Len(r))..Len(s) : s[k] \in Whitespace

\* C9: when the peer's newline-terminated line arrives within the deadline,
\* the exchange of a query returns Some(r), r being that first line without
\* its terminator and the whitespace around it.
C9_ResponseIsFirstLineStripped ==
    rdres = "line" =>
        /\ isq /\ wrote = "ok"
        /\ FirstLine # <<>>
        /\ result.tag = "Some"
        /\ IsStripped(result.val, FirstLine)

C9_Witness ==
    /\ rdres = "line" /\ result = Some(<<"1">>) /\ peerSent = <<" ", "1", "\n">>

\* The classification worded without is_query's operations: before the first
\* space (or the end) there is a "?" followed by whitespace only.
FirstSpace(c) ==
    IF \E i \in 1..Len(c) : c[i] = " "
    THEN CHOOSE i \in 1..Len(c) : c[i] = " " /\ \A j \in 1..(i - 1) : c[j] # " "
    ELSE Len(c) + 1

EndsWithQuestionBeforeFirstSpace(c) ==
    \E i \in 1..(FirstSpace(c) - 1) :
        /\ c[i] = "?"
        /\ \A j \in (i + 1)..(FirstSpace(c) - 1) : c[j] \in Whitespace

\* C10: is_query is false for the empty string and otherwise true exactly
\* when the first token of the split on " " (tabs and newlines do not
\* separate), trimmed, ends with "?"; what follows the first space, and a
\* trailing newline, do not change it.
C10_IsQueryFirstSpaceToken ==
    wrote # "none" =>
        /\ isq = (cmd # <<>> /\ EndsWithQuestionBeforeFirstSpace(cmd))
        /\ isq = is_query(SubSeq(cmd, 1, FirstSpace(cmd) - 1))
        /\ isq = is_query(cmd \o <<"\n">>)
        /\ (cmd = <<>> => ~isq)

C10_Witness == wrote # "none" /\ isq /\ cmd = <<"A", "\t", "?">>


\* After a close, the process ends: with a status other than 0, or with 0
\* because the user ended the input first.
ClosedLeadsToExit ==
    (mode = "interactive" /\ conn # "open")
        ~> (exitStatus = "1" \/ (exitStatus = "0" /\ exitBy = "input"))

\* C5 as stated: in an interactive session, once the peer has closed the
\* connection the process ends with a status other than 0 unless the user
\* ends the input first, and the heartbeat's next peek after the close sees
\* the end of the stream and takes the exit branch.
C5_NextPeekSeesEnd ==
    /\ ClosedLeadsToExit
    /\ [](mode = "interactive" /\ conn # "open" /\ Running /\ peeksSinceClose >= 1
              => mpc \in {"lost", "exit"})

\* C5, amended: in an interactive session, once the peer has closed the
\* connection the process ends with a status other than 0 unless the user
\* ends the input first; the heartbeat takes its exit branch (notice, then
\* exit(1)) at its first peek after the close, or at its second when the
\* first found unread data or a pending socket error and so gave a size
\* other than 0.
C5_ClosedLeadsToExit ==
    /\ ClosedLeadsToExit
    /\ [](mode = "interactive" /\ conn # "open" /\ Running /\ mpc \notin {"lost", "exit"}
              => /\ peeksSinceClose <= 1
                 /\ (peeksSinceClose = 1 => rbFilled = 1 \/ conn = "rst"))
    /\ [](peeksSinceClose <= 2)
    /\ [](exitBy = "monitor"
              => /\ exitStatus = "1" /\ mpc = "exited"
                 /\ \E i \in 1..Len(stdout) : stdout[i] = LostNotice[2])

C5_Witness ==
    /\ mode = "interactive" /\ conn = "fin" /\ exitBy = "monitor"
    /\ exitStatus = "1" /\ mpc = "exited" /\ peeksSinceClose = 2
    /\ ~closedAtInput

\* C6 as stated: when the peer closes while the loop waits for input, no
\* command is written and no exchange is started before the process ends.
C6_NoCommandAfterClose == closedAtInput => writesSinceClose = 0

\* C6, amended: when the peer closes while the loop waits for input, the
\* heartbeat takes its exit branch (notice, exit(1)) at its first peek after
\* the close, or at its second when the first found unread data or a pending
\* socket error; a line the user enters before that is still given to an
\* exchange.
C6_ExitWithinTwoPeeks ==
    /\ (closedAtInput /\ Running /\ mpc \notin {"lost", "exit"}) =>
          /\ peeksSinceClose <= 1
          /\ (peeksSinceClose = 1 => rbFilled = 1 \/ conn = "rst")
    /\ (closedAtInput => peeksSinceClose <= 2)
    /\ (exitBy = "monitor" => exitStatus = "1" /\ mpc = "exited")

C6_Witness ==
    /\ closedAtInput /\ writesSinceClose = 1 /\ wrote = "ok"
    /\ exitBy = "monitor" /\ exitStatus = "1"


\* The order of a batch run, in every state of it: the lines are taken in
\* order, a line is written only after the exchange before it has returned
\* and its response, if any, is printed; a read timeout does not end the run;
\* status 0 comes only after the last line and status 1 only from a write
\* that failed.
BatchInOrderSoFar ==
    mode = "batch" =>
        /\ lines = SubSeq(cmdLines, ncmd + 1, Len(cmdLines))
        /\ (ncmd > 0 => cmd = cmdLines[ncmd])
        /\ Len(wire) = (IF ncmd > 0 /\ wrote # "ok" THEN ncmd - 1 ELSE ncmd)
        /\ \A i \in 1..Len(wire) : wire[i] = cmdLines[i] \o <<"\n">>
        /\ (pc \in {"next", "exited"} /\ result.tag = "Some" =>
               stdout # <<>> /\ stdout[Len(stdout)] = result.val)
        /\ Len(stdout) <= Len(wire)
        /\ (rdres = "timeout" => exitStatus # "1")
        /\ (exitStatus = "0" => lines = <<>> /\ Len(wire) = Len(cmdLines) /\ pc = "exited")
        /\ (exitStatus = "1" => wrote = "err")

\* C11: batch mode takes the lines in order, one exchange at a time: a line
\* is written only after the exchange before it has returned and its response,
\* if any, is printed; a read timeout does not stop the run; and when no
\* write fails the run ends after the last line with status 0.
C11_BatchInOrder ==
    /\ []BatchInOrderSoFar
    /\ (mode = "batch") ~> (exitStatus = "0" \/ wrote = "err")


\* The input ended while the loop waited for a line: "Exiting." is printed
\* and exit(0) is called or has ended the process.
InputEnded == pc = "exit0" \/ exitBy = "input"

\* C12 as stated: in interactive mode, when the input ends while the loop
\* waits for a line, the session prints the exit notice and ends with status
\* 0; nothing more is written to the connection and the end of input is no
\* error.
C12_InputEndIsNormalExit ==
    InputEnded =>
        /\ mode = "interactive"
        /\ exitStatus \in {"running", "0"}
        /\ \E i \in 1..Len(stdout) : stdout[i] = ExitNotice
        /\ Len(wire) = ncmd
        /\ result.tag # "Err" /\ wrote # "err"
        /\ ~writer

\* C12, amended: when the input ends while the loop waits for a line, the
\* session prints the exit notice and calls exit(0) with nothing more written
\* to the connection; the process ends with status 0 unless the heartbeat,
\* which runs until the process has ended, finds the connection lost in
\* between and its exit(1) comes first.  The heartbeat's notice may follow
\* the exit notice.  The end of input is not reported as an error.
C12_InputEndExitsUnlessLost ==
    InputEnded =>
        /\ mode = "interactive"
        /\ \E i \in 1..Len(stdout) : stdout[i] = ExitNotice
        /\ Len(wire) = ncmd
        /\ result.tag # "Err" /\ wrote # "err"
        /\ ~writer
        /\ (exitBy = "input" => exitStatus = "0" /\ pc = "exited")
        /\ (exitStatus = "1" => exitBy = "monitor" /\ pc = "exit0" /\ mpc = "exited")
        /\ (stdout[Len(stdout)] # ExitNotice =>
               mpc \in {"exit", "exited"}
               /\ SubSeq(stdout, Len(stdout) - 2, Len(stdout)) = <<ExitNotice>> \o LostNotice)

C12_Witness ==
    /\ exitBy = "input" /\ exitStatus = "0" /\ ncmd = 1 /\ Len(wire) = 1
    /\ stdout = <<ExitNotice>> \o LostNotice /\ mpc = "exit"


\* C13: the heartbeat ends the process only when the peer has closed the
\* connection; while the connection is open it goes on polling after every
\* round, with no data pending and with unread data pending alike.
C13_ExitOnlyWhenClosed ==
    /\ (exitBy = "monitor" => conn # "open")
    /\ (mpc = "exited" => conn # "open")


\* C14 as stated: in an interactive session no outcome of an exchange ends
\* the session; it ends only by the end of input or by the heartbeat.
C14_ExchangeNeverTerminates ==
    mode = "interactive" => exitBy \in {"none", "input", "monitor"}

\* C14, amended: in an interactive session an exchange whose write succeeded
\* returns the session to waiting for a line, whatever its read did (line,
\* end of stream, read error, timeout); a write error ends the session with
\* status 1.  The session ends only by the end of input while waiting for a
\* line (status 0), by a write error in an exchange (status 1), or by the
\* heartbeat's exit (status 1), which comes while the loop holds no lock:
\* waiting for a line or for the lock, printing a response, or on its way
\* out after the end of input or a write error.
C14_InteractiveStateMachine ==
    mode = "interactive" =>
        /\ pc \in {"readline", "lock", "lockwait", "write", "read", "ret",
                   "print", "fail", "exit0", "exited"}
        /\ (Running <=> exitBy = "none")
        /\ (exitBy = "input" => exitStatus = "0" /\ pc = "exited")
        /\ (exitBy = "monitor" =>
               /\ exitStatus = "1" /\ mpc = "exited"
               /\ pc \in {"readline", "lock", "lockwait", "print", "fail", "exit0"})
        /\ (exitBy = "error" => exitStatus = "1" /\ pc = "exited")
        /\ (pc = "fail" \/ exitBy = "error" => wrote = "err" /\ result = Err)
        /\ (pc = "exited" => exitBy \in {"input", "error"})
        /\ (wrote = "ok" /\ pc = "exited" => exitBy = "input")
        /\ (wrote = "ok" /\ rdres # "none" =>
               pc \in {"ret", "print", "readline", "exit0", "exited"})

C14_Witness ==
    /\ mode = "interactive" /\ exitBy = "error" /\ exitStatus = "1"
    /\ ncmd = 2 /\ Len(stdout) = 1 /\ Len(wire) = 1


\* C15: in an interactive session the lock is held by no party that sleeps
\* between polls or waits for user input: the heartbeat has dropped its guard
\* when it sleeps, and the loop holds its guard only from after a line was
\* read until before the next one is asked for.
C15_NoLockAcrossWaits ==
    mode = "interactive" =>
        /\ (mpc \in {"sleep", "lock", "lockwait"} => readers = 0)
        /\ (readers > 0 => readers = 1 /\ mpc \in {"peek", "lost", "exit", "exited"})
        /\ (pc \in {"readline", "lock", "lockwait"} => ~writer)
        /\ (writer => InExchange)

C15_Witness ==
    /\ mode = "interactive" /\ mpc = "sleep" /\ pc = "readline" /\ ncmd = 1
    /\ rbFilled = 1 /\ readers = 0 /\ ~writer /\ Running


\* C16: no deadlock and no starvation on the lock: a request of the session
\* loop is granted in the end (the heartbeat's hold lasts one peek that
\* never waits for data), and so is a request of the heartbeat, once the
\* exchange in progress (its wait bounded by the deadline) is over; unless
\* the process has ended by then.
C16_LockIsGranted ==
    /\ (pc \in {"lock", "lockwait"}) ~> (pc = "write" \/ ~Running)
    /\ (mpc \in {"lock", "lockwait"}) ~> (mpc = "peek" \/ ~Running)


\* C17: an exchange returns Some only when the peer delivered a
\* newline-terminated line before the deadline; when the peer closes the
\* stream after the query was written without sending a line, the exchange
\* returns None and nothing is printed for that command.
C17_SomeOnlyForDeliveredLine ==
    /\ (result.tag = "Some" => rdres = "line")
    /\ (rdres = "eof" => result = None)
    /\ (rdres = "eof" /\ pc \in {"readline", "next"} =>
           Len(stdout) < Len(wire))


\* The first token of c delimited by any whitespace, after trimming c.
RECURSIVE UntilWhitespace(_)
UntilWhitespace(s) ==
    IF s = <<>> THEN <<>>
    ELSE IF Head(s) \in Whitespace THEN <<>>
    ELSE <<Head(s)>> \o UntilWhitespace(Tail(s))

FirstWhitespaceToken(c) == UntilWhitespace(trim(c))

\* C18: the classification depends only on the first whitespace-delimited
\* token of the trimmed command: is_query(c) is true iff that token ends with
\* "?"; in particular a command with a leading space is classified like the
\* same command without it.
C18_ClassifiedByFirstWhitespaceToken ==
    wrote # "none" =>
        /\ isq = ends_with(FirstWhitespaceToken(cmd), "?")
        /\ isq = is_query(<<" ">> \o cmd)


\* C19: no byte of the peer is lost between exchanges: what arrived past the
\* returned line, or as a partial line when the deadline expired, is still
\* there for the next exchange's read.
C19_NoPeerByteLost == lost = <<>>


\* C20: every response an exchange returns for a query is a line the peer
\* sent in reply to that query: none of it was in the socket before the query
\* was written.  A reply that arrives after its query timed out is never
\* returned as the response to a later query.
C20_ResponseAnswersItsQuery == pc = "ret" /\ rdres = "line" => ~rxAtWrite

====
